---- MODULE Spec2Model ----
(***************************************************************************)
(* SearXNG Search API (src/api/main.py): the four search handlers, the     *)
(* Redis-or-memory cache, the cache key, result formatting and /health.    *)
(*                                                                         *)
(* A handler is an asyncio coroutine: the code between two awaits runs     *)
(* atomically.  Each search handler has one await (search_searxng), so it  *)
(* is two steps: the handler's entry up to the upstream GET, and resume,   *)
(* from the upstream's reply to the response.                              *)
(***************************************************************************)
EXTENDS Integers, Sequences, FiniteSets, TLC

\* ---- bounds of the model ------------------------------------------------
NumProcs == 2        \* requests that can be in flight at the same time
MaxRequests == 2     \* search requests accepted in one run
MaxCacheRequests == 3 \* the same, in the run of the cache's life
MaxUpstream == 2     \* most results in one upstream reply

\* ---- configuration (src/api/main.py:22-25) ------------------------------
MAX_RESULTS == 2
SEARXNG_URL == "http://localhost:8080"

None == "None"       \* Python None / JSON null

Procs == 1..NumProcs
Languages == {"en", "de"}

Min(a, b) == IF a <= b THEN a ELSE b

\* ---- upstream replies ---------------------------------------------------
\* A JSON object is a record of the keys it has; dict.get(key, default):
Get(d, k, default) == IF k \in DOMAIN d THEN d[k] ELSE default

\* raw result objects of the upstream JSON: one with every field, one with
\* only an abstract
RawFull ==
    [title |-> "T1", url |-> "u1", content |-> "c1", engine |-> "e1",
     score |-> "1.5", publishedDate |-> "d1", thumbnail |-> "th1"]
RawSparse == [abstract |-> "a2"]
RawResults == {RawFull, RawSparse}

\* the result lists of the upstream: the first n objects of a stream that
\* alternates the two, starting with either
Stream(first, n) ==
    [i \in 1..n |-> IF (i % 2 = 1) = first THEN RawFull ELSE RawSparse]
ResultLists == {Stream(first, n) : first \in BOOLEAN, n \in 0..MaxUpstream}

\* the JSON documents an upstream can answer with: the usual keys, none of
\* them, or a null where SearchResponse wants a number.  A JSON number is
\* its text, so that a field can hold a number or null.
Datas ==
    {[results |-> rs, number_of_results |-> "7", search_duration |-> "1",
      engines |-> <<"e1">>] : rs \in ResultLists}
        \cup {[query |-> "q"],
              [results |-> <<>>, number_of_results |-> None]}

NoData == [nodata |-> TRUE]
MkReply(k, s, d) == [kind |-> k, status |-> s, data |-> d]

\* what one GET to an upstream can end in:
\*   json      a 2xx status with a JSON body
\*   badbody   a 2xx status whose body is not JSON
\*   status    a status raise_for_status rejects (3xx, 4xx, 5xx)
\*   timeout   no reply within the timeout
\*   transport connection refused, reset, DNS failure ...
Replies ==
    {MkReply("json", 200, d) : d \in Datas}
        \cup {MkReply("json", 203, [results |-> <<>>]),
              MkReply("badbody", 200, NoData),
              MkReply("status", 502, NoData),
              MkReply("timeout", 0, NoData),
              MkReply("transport", 0, NoData)}
NoReply == MkReply("none", 0, NoData)

VARIABLES
    REDIS_URL,      \* "" or the configured URL
    redis_client,   \* None or "client"
    redis_up,       \* is the Redis server reachable now
    redis_store,    \* the Redis server's keys
    _memory_cache,  \* the in-process dict
    pc,             \* pc[p]: "idle" or "await" (p is inside search_searxng)
    req,            \* req[p]: the HTTP request p handles
    cache_key,      \* cache_key[p]: the handler's local cache_key
    last,           \* the latest handler step: its request, what the request
                    \* has done so far and its response (NoResp while it awaits)
    health_resp,    \* the last /health response
    nreq,           \* search requests accepted so far
    keyed           \* keyed[i]: a request and the key get_cache_key gave it

vars == <<REDIS_URL, redis_client, redis_up, redis_store, _memory_cache, pc, req,
          cache_key, last, health_resp, nreq, keyed>>

\* ---- dicts (the cache stores: key -> serialized response) ---------------
EmptyDict == <<>>
Has(d, k) == k \in DOMAIN d
DictSet(d, k, v) == [x \in DOMAIN d \cup {k} |-> IF x = k THEN v ELSE d[x]]
DictDel(d, k) == [x \in DOMAIN d \ {k} |-> d[x]]

\* ---- get_cache_key ------------------------------------------------------
\* A keyword argument is <<name, JSON text of its value>>; kwargs is the
\* sequence of keyword arguments in the order the call supplies them.
KwInt(name, v) == <<name, ToString(v)>>
KwStr(name, v) == <<name, "\"" \o v \o "\"">>

\* the order of the keyword names the handlers use, as sort_keys orders them
KwRank == [lang |-> 1, limit |-> 2, safesearch |-> 3]

RECURSIVE SortedInsert(_, _)
SortedInsert(kv, sorted) ==
    IF sorted = <<>> THEN <<kv>>
    ELSE IF KwRank[kv[1]] <= KwRank[Head(sorted)[1]] THEN <<kv>> \o sorted
    ELSE <<Head(sorted)>> \o SortedInsert(kv, Tail(sorted))

\* json.dumps without sort_keys=True
sort_keys_off(kwargs) == kwargs

RECURSIVE sort_keys(_)
sort_keys(kwargs) ==
    IF kwargs = <<>> THEN <<>>
    ELSE SortedInsert(Head(kwargs), sort_keys(Tail(kwargs)))

RECURSIVE JoinItems(_)
JoinItems(items) ==
    IF items = <<>> THEN ""
    ELSE "\"" \o Head(items)[1] \o "\": " \o Head(items)[2]
            \o (IF Tail(items) = <<>> THEN "" ELSE ", " \o JoinItems(Tail(items)))

\* json.dumps(kwargs, sort_keys=True)
dumps_sorted(kwargs) == "{" \o JoinItems(sort_keys(kwargs)) \o "}"

\* hashlib.md5(...).hexdigest(), taken as injective: the digest stands for
\* the text it was computed from
md5_hexdigest(text) == text

get_cache_key(query, category, kwargs) ==
    "search:" \o md5_hexdigest(query \o ":" \o category \o ":" \o dumps_sorted(kwargs))

\* ---- cache_get / cache_set ----------------------------------------------
\* redis_client.get / setex raise ConnectionError when the server is down
RedisRaises == redis_client # None /\ ~redis_up

\* cache_get finding nothing, whatever the store holds
cache_hit_never(key) == FALSE

\* is the value cache_get returns truthy (a serialized response, not None)
cache_hit(key) ==
    IF redis_client # None THEN Has(redis_store, key) ELSE Has(_memory_cache, key)

cache_get(key) ==
    IF redis_client # None THEN redis_store[key] ELSE _memory_cache[key]

\* an in-process dict that keeps its latest entry only
cache_set_memory_evicting(key, value) ==
    IF redis_client # None THEN _memory_cache ELSE [x \in {key} |-> value]

\* the stores after cache_set(key, value, CACHE_TTL)
cache_set_redis(key, value) ==
    IF redis_client # None THEN DictSet(redis_store, key, value) ELSE redis_store
cache_set_memory(key, value) ==
    IF redis_client # None THEN _memory_cache ELSE DictSet(_memory_cache, key, value)

\* ---- format_results -----------------------------------------------------
\* the thumbnail copied for every category
SearchResult_any_category(r, category) ==
    [title |-> Get(r, "title", "Untitled"),
     url |-> Get(r, "url", ""),
     content |-> Get(r, "content", Get(r, "abstract", "")),
     engine |-> Get(r, "engine", "unknown"),
     score |-> Get(r, "score", None),
     publishedDate |-> Get(r, "publishedDate", None),
     thumbnail |-> Get(r, "thumbnail", None)]

SearchResult(r, category) ==
    [title |-> Get(r, "title", "Untitled"),
     url |-> Get(r, "url", ""),
     content |-> Get(r, "content", Get(r, "abstract", "")),
     engine |-> Get(r, "engine", "unknown"),
     score |-> Get(r, "score", None),
     publishedDate |-> Get(r, "publishedDate", None),
     thumbnail |-> IF category = "images" THEN Get(r, "thumbnail", None) ELSE None]

format_results(data, category) ==
    LET rs == Get(data, "results", <<>>)
    IN  [i \in 1..Len(rs) |-> SearchResult(rs[i], category)]

\* the list without the [:limit]
Slice_off(s, limit) == s

\* s[:limit], limit >= 1
Slice(s, limit) == SubSeq(s, 1, Min(limit, Len(s)))

\* the handler's response_data dict
ResponseData(q, data, category, limit) ==
    [query |-> q,
     results |-> Slice(format_results(data, category), limit),
     total |-> Get(data, "number_of_results", "0"),
     time |-> Get(data, "search_duration", "0"),
     cached |-> FALSE,
     engines |-> Get(data, "engines", <<>>)]

\* json.dumps(response_data): the results are SearchResult objects, which
\* json cannot encode, so it raises TypeError unless the list is empty
JsonSerializable(rd) == Len(rd.results) = 0

\* JSON text is the sequence of its members, <<name, value>>, in the order
\* json.dumps writes them: the dict's insertion order
json_dumps(rd) ==
    <<<<"query", rd.query>>, <<"results", rd.results>>, <<"total", rd.total>>,
      <<"time", rd.time>>, <<"cached", rd.cached>>, <<"engines", rd.engines>>>>

\* the value of a member of JSON text
Member(text, name) == text[CHOOSE i \in DOMAIN text : text[i][1] = name][2]

\* json.loads without the engines of the text
json_loads_no_engines(text) ==
    [query |-> Member(text, "query"), results |-> Member(text, "results"),
     total |-> Member(text, "total"), time |-> Member(text, "time"),
     cached |-> Member(text, "cached"), engines |-> <<>>]

json_loads(text) ==
    [query |-> Member(text, "query"), results |-> Member(text, "results"),
     total |-> Member(text, "total"), time |-> Member(text, "time"),
     cached |-> Member(text, "cached"), engines |-> Member(text, "engines")]

\* SearchResponse(**d): pydantic validates the fields; total: int rejects None
SearchResponse_accepts(d) == d.total # None

\* ---- HTTP responses -----------------------------------------------------
NoBody == [none |-> TRUE]
NoResp == [status |-> 0, body |-> NoBody, detail |-> <<>>, exc |-> None]
\* 200 with a SearchResponse
Ok(body) == [status |-> 200, body |-> body, detail |-> <<>>, exc |-> None]
\* HTTPException(503, "Search service unavailable: {e}"): detail holds the
\* failure messages it carries
ServiceUnavailable(e) == [status |-> 503, body |-> NoBody, detail |-> <<e>>, exc |-> None]
\* an exception no handler catches: the framework answers 500
InternalError(e) == [status |-> 500, body |-> NoBody, detail |-> <<>>, exc |-> e]
\* a Query(...) constraint rejected the request
Unprocessable == [status |-> 422, body |-> NoBody, detail |-> <<>>, exc |-> None]

\* limit without its upper bound
Valid_no_le(limit, safesearch) ==
    /\ limit >= 1
    /\ safesearch >= 0 /\ safesearch <= 2

\* Query(ge=1, le=MAX_RESULTS) and Query(ge=0, le=2)
Valid(limit, safesearch) ==
    /\ limit >= 1 /\ limit <= MAX_RESULTS
    /\ safesearch >= 0 /\ safesearch <= 2

\* an except clause that catches nothing
IsHTTPError_none(reply) == FALSE

\* exceptions of httpx.HTTPError: raise_for_status, timeouts, transport errors
IsHTTPError(reply) == reply.kind \in {"status", "timeout", "transport"}

CategoryOf == [search |-> "general", news |-> "news", images |-> "images",
               videos |-> "videos"]

GetOp == "GET " \o SEARXNG_URL \o "/search"

\* search_searxng with a second GET after one that raised
search_searxng_retry(reply) ==
    IF reply.kind \in {"status", "timeout", "transport"} THEN <<GetOp, GetOp>>
    ELSE <<GetOp>>

\* the GETs search_searxng has issued when it returns or raises with reply:
\* one client.get, whatever it ends in
search_searxng_gets(reply) == <<GetOp>>

\* ---- the program ------------------------------------------------------
NoReq == [none |-> TRUE]

\* the record of a handler step: the request, its cache key, the cache and
\* upstream operations it has issued in order, the reply search_searxng got,
\* the handler's response_data and the HTTP response
Returned(r, key, o, reply, rd, response) ==
    [req |-> r, cache_key |-> key, ops |-> o, upstream |-> reply,
     response_data |-> rd, resp |-> response]

\* Module load: redis_client is set only if REDIS_URL is configured and the
\* server answers the ping.
Init ==
    /\ REDIS_URL \in {"", "redis://localhost:6379"}
    /\ redis_up \in (IF REDIS_URL = "" THEN {FALSE} ELSE BOOLEAN)
    /\ redis_client = (IF REDIS_URL # "" /\ redis_up THEN "client" ELSE None)
    /\ redis_store = EmptyDict
    /\ _memory_cache = EmptyDict
    /\ pc = [p \in Procs |-> "idle"]
    /\ req = [p \in Procs |-> NoReq]
    /\ cache_key = [p \in Procs |-> None]
    /\ last = Returned(NoReq, None, <<>>, NoReply, NoBody, NoResp)
    /\ health_resp = NoBody
    /\ nreq = 0
    /\ keyed = [i \in 1..2 |-> NoReq]

Request(endpoint, q, limit, safesearch, language) ==
    [endpoint |-> endpoint, q |-> q, limit |-> limit, safesearch |-> safesearch,
     language |-> language]

\* the keyword arguments each handler passes to get_cache_key, in its order;
\* /images and /videos declare no language parameter (one in the query string
\* is ignored) and pass none
handler_kwargs(endpoint, limit, safesearch, language) ==
    IF endpoint \in {"search", "news"}
    THEN <<KwInt("limit", limit), KwInt("safesearch", safesearch),
           KwStr("lang", language)>>
    ELSE <<KwInt("limit", limit), KwInt("safesearch", safesearch)>>

\* the handler's cache_key
handler_key(endpoint, q, limit, safesearch, language) ==
    get_cache_key(q, CategoryOf[endpoint],
                  handler_kwargs(endpoint, limit, safesearch, language))

\* A search handler from the arrival of a request to its first await or its
\* return: parameter validation, cache key, cache read, cache hit.  The
\* coroutines are interchangeable: a request takes the first idle one.
Enter(p, endpoint, q, limit, safesearch, language) ==
    LET r == Request(endpoint, q, limit, safesearch, language)
        key == handler_key(endpoint, q, limit, safesearch, language)
    IN  /\ pc[p] = "idle"
        /\ \A o \in Procs : o < p => pc[o] = "await"
        /\ nreq' = nreq + 1
        /\ IF ~Valid(limit, safesearch)
           THEN /\ last' = Returned(r, None, <<>>, NoReply, NoBody, Unprocessable)
                /\ UNCHANGED <<pc, req, cache_key>>
           ELSE IF RedisRaises
           THEN /\ last' = Returned(r, key, <<"cache_get">>, NoReply, NoBody,
                                    InternalError("ConnectionError"))
                /\ UNCHANGED <<pc, req, cache_key>>
           ELSE IF cache_hit(key)
           THEN /\ LET data == [json_loads(cache_get(key)) EXCEPT !.cached = TRUE]
                   IN  last' = Returned(r, key, <<"cache_get">>, NoReply, NoBody,
                                IF SearchResponse_accepts(data) THEN Ok(data)
                                ELSE InternalError("ValidationError"))
                /\ UNCHANGED <<pc, req, cache_key>>
           ELSE /\ pc' = [pc EXCEPT ![p] = "await"]
                /\ req' = [req EXCEPT ![p] = r]
                /\ cache_key' = [cache_key EXCEPT ![p] = key]
                /\ last' = Returned(r, key, <<"cache_get", GetOp>>, NoReply, NoBody,
                                    NoResp)
        /\ UNCHANGED <<REDIS_URL, redis_client, redis_up, redis_store,
                       _memory_cache, health_resp, keyed>>

search(p, q, limit, safesearch, language) ==
    Enter(p, "search", q, limit, safesearch, language)

news(p, q, limit, safesearch, language) ==
    Enter(p, "news", q, limit, safesearch, language)

images(p, q, limit, safesearch, language) ==
    Enter(p, "images", q, limit, safesearch, language)

videos(p, q, limit, safesearch, language) ==
    Enter(p, "videos", q, limit, safesearch, language)

\* search_searxng returns or raises, and the handler runs to its end.
resume(p, reply) ==
    /\ pc[p] = "await"
    /\ pc' = [pc EXCEPT ![p] = "idle"]
    /\ req' = [req EXCEPT ![p] = NoReq]
    /\ cache_key' = [cache_key EXCEPT ![p] = None]
    /\ LET r == req[p]
           key == cache_key[p]
           rd == ResponseData(r.q, reply.data, CategoryOf[r.endpoint], r.limit)
           issued == <<"cache_get">> \o search_searxng_gets(reply)
       IN  IF IsHTTPError(reply)
           THEN /\ last' = Returned(r, key, issued, reply, NoBody,
                                    ServiceUnavailable(reply.kind))
                /\ UNCHANGED <<redis_store, _memory_cache>>
           ELSE IF reply.kind = "badbody"
           THEN /\ last' = Returned(r, key, issued, reply, NoBody,
                                    InternalError("JSONDecodeError"))
                /\ UNCHANGED <<redis_store, _memory_cache>>
           ELSE IF ~JsonSerializable(rd)
           THEN /\ last' = Returned(r, key, issued, reply, rd,
                                    InternalError("TypeError"))
                /\ UNCHANGED <<redis_store, _memory_cache>>
           ELSE IF RedisRaises
           THEN /\ last' = Returned(r, key, Append(issued, "cache_set"), reply, rd,
                                    InternalError("ConnectionError"))
                /\ UNCHANGED <<redis_store, _memory_cache>>
           ELSE /\ redis_store' = cache_set_redis(key, json_dumps(rd))
                /\ _memory_cache' = cache_set_memory(key, json_dumps(rd))
                /\ last' = Returned(r, key, Append(issued, "cache_set"), reply, rd,
                                    IF SearchResponse_accepts(rd) THEN Ok(rd)
                                    ELSE InternalError("ValidationError"))
    /\ UNCHANGED <<REDIS_URL, redis_client, redis_up, health_resp, nreq, keyed>>

\* GET /health; probe is what the GET to the upstream's /healthz ends in
Probes == {"200", "503", "timeout", "transport"}

\* the except clauses of health: a probe that raises is "unreachable"
searxng_status_of(probe) ==
    IF probe \in {"timeout", "transport"} THEN "unreachable"
    ELSE IF probe = "200" THEN "healthy" ELSE "unhealthy"

redis_status_of ==
    IF REDIS_URL = "" THEN "disabled"
    ELSE IF redis_client = None THEN "unknown"
    ELSE IF redis_up THEN "healthy" ELSE "unreachable"

\* healthy only if Redis is not unreachable either
overall_with_redis(searxng_status, redis_status) ==
    IF searxng_status = "healthy" /\ redis_status # "unreachable"
    THEN "healthy" ELSE "degraded"

overall(searxng_status, redis_status) ==
    IF searxng_status = "healthy" THEN "healthy" ELSE "degraded"

health(probe) ==
    /\ health_resp' =
            [code |-> 200,
             status |-> overall(searxng_status_of(probe), redis_status_of),
             searxng |-> searxng_status_of(probe), redis |-> redis_status_of,
             probe |-> probe]
    /\ UNCHANGED <<REDIS_URL, redis_client, redis_up, redis_store,
                   _memory_cache, pc, req, cache_key, last, nreq, keyed>>

\* ---- the environment ----------------------------------------------------
\* the server's reachability matters to the program only through redis_client
RedisDown ==
    /\ redis_client # None /\ redis_up
    /\ redis_up' = FALSE
    /\ UNCHANGED <<REDIS_URL, redis_client, redis_store, _memory_cache, pc, req,
                   cache_key, last, health_resp, nreq, keyed>>

RedisUp ==
    /\ redis_client # None /\ ~redis_up
    /\ redis_up' = TRUE
    /\ UNCHANGED <<REDIS_URL, redis_client, redis_store, _memory_cache, pc, req,
                   cache_key, last, health_resp, nreq, keyed>>

\* the TTL of a key set with setex runs out
RedisExpire(key) ==
    /\ Has(redis_store, key)
    /\ redis_store' = DictDel(redis_store, key)
    /\ UNCHANGED <<REDIS_URL, redis_client, redis_up, _memory_cache, pc, req,
                   cache_key, last, health_resp, nreq, keyed>>

\* ---- the requests of the search specification ---------------------------
\* the parameters of the requests: two valid ones that differ in every
\* parameter, and ones a Query constraint rejects
Param(q, limit, safesearch, language) ==
    [q |-> q, limit |-> limit, safesearch |-> safesearch, language |-> language]
Params ==
    <<Param("q1", 1, 1, "en"), Param("q2", MAX_RESULTS, 0, "de"),
      Param("q1", 0, 1, "en"), Param("q1", MAX_RESULTS + 1, 1, "en"),
      Param("q1", 1, -1, "en"), Param("q1", 1, 3, "en")>>

Next ==
    \/ \E p \in Procs, i \in DOMAIN Params :
        nreq < MaxRequests /\ search(p, Params[i].q, Params[i].limit, Params[i].safesearch,
               Params[i].language)
    \/ \E p \in Procs, i \in DOMAIN Params :
        nreq < MaxRequests /\ news(p, Params[i].q, Params[i].limit, Params[i].safesearch,
             Params[i].language)
    \/ \E p \in Procs, i \in DOMAIN Params :
        nreq < MaxRequests /\ images(p, Params[i].q, Params[i].limit, Params[i].safesearch,
               Params[i].language)
    \/ \E p \in Procs, i \in DOMAIN Params :
        nreq < MaxRequests /\ videos(p, Params[i].q, Params[i].limit, Params[i].safesearch,
               Params[i].language)
    \/ \E p \in Procs, reply \in Replies : resume(p, reply)
    \/ RedisDown
    \/ RedisUp
    \/ \E key \in DOMAIN redis_store : RedisExpire(key)

Spec == Init /\ [][Next]_vars

\* ---- /health beside /search ---------------------------------------------
NextHealth ==
    \/ \E probe \in Probes : health(probe)
    \/ \E p \in Procs, i \in DOMAIN Params :
        nreq < MaxRequests /\ search(p, Params[i].q, Params[i].limit, Params[i].safesearch,
               Params[i].language)
    \/ \E p \in Procs, reply \in Replies : resume(p, reply)
    \/ RedisDown
    \/ RedisUp

SpecHealth == Init /\ [][NextHealth]_vars

\* ---- the life of the cache ----------------------------------------------
\* more requests, of two endpoints and of valid parameters only
NextCache ==
    \/ \E p \in Procs, i \in 1..2 :
        nreq < MaxCacheRequests /\ search(p, Params[i].q, Params[i].limit,
                                          Params[i].safesearch, Params[i].language)
    \/ \E p \in Procs, i \in 1..2 :
        nreq < MaxCacheRequests /\ images(p, Params[i].q, Params[i].limit,
                                          Params[i].safesearch, Params[i].language)
    \/ \E p \in Procs, reply \in Replies : resume(p, reply)
    \/ \E key \in DOMAIN redis_store : RedisExpire(key)

SpecCache == Init /\ [][NextCache]_vars

\* ---- get_cache_key on its own -------------------------------------------
KeyQueries == {"q1", "q1:news"}
KeyEndpoints == {"search", "news", "images", "videos"}

\* the orders in which two and three keyword arguments can be supplied
Orders ==
    <<<<1, 2, 3>>, <<1, 3, 2>>, <<2, 1, 3>>, <<2, 3, 1>>, <<3, 1, 2>>, <<3, 2, 1>>,
      <<1, 2>>, <<2, 1>>>>
Reordered(kwargs, f) == [i \in 1..Len(kwargs) |-> kwargs[f[i]]]

\* get_cache_key for the request the endpoint got, its keyword arguments
\* supplied in the order Orders[o]
ComputeKey(i, endpoint, q, limit, safesearch, language, o) ==
    LET kwargs == handler_kwargs(endpoint, limit, safesearch, language)
    IN  /\ Len(Orders[o]) = Len(kwargs)
        /\ keyed' = [keyed EXCEPT ![i] =
                [req |-> Request(endpoint, q, limit, safesearch, language),
                 key |-> get_cache_key(q, CategoryOf[endpoint],
                                       Reordered(kwargs, Orders[o]))]]
        /\ UNCHANGED <<REDIS_URL, redis_client, redis_up, redis_store,
                       _memory_cache, pc, req, cache_key, last, health_resp, nreq>>

InitKey == Init /\ REDIS_URL = ""

NextKey ==
    \E i \in 1..2, endpoint \in KeyEndpoints, q \in KeyQueries,
       limit \in 1..MAX_RESULTS, safesearch \in {0, 2}, language \in Languages,
       o \in DOMAIN Orders :
        ComputeKey(i, endpoint, q, limit, safesearch, language, o)

SpecKey == InitKey /\ [][NextKey]_vars

\* ---- reading the latest handler step -----------------------------------
IsRequest(r) == "endpoint" \in DOMAIN r
\* the step ended the request with an HTTP response
Answered == IsRequest(last.req) /\ last.resp.status # 0
\* the request found no cache entry and queried the upstream
Missed == IsRequest(last.req) /\ Len(last.ops) >= 2
\* search_searxng has returned or raised
Replied == Missed /\ last.upstream.kind # "none"
\* the upstream answered the query successfully: 200 and a JSON document
UpstreamOk == Replied /\ last.upstream.kind = "json" /\ last.upstream.status = 200
\* the attempt did not obtain a usable reply: an error status, a status
\* other than 200, a timeout, a transport error, a body that is not JSON
UpstreamFailed == Replied /\ ~UpstreamOk
\* the cache is the in-process dict
InMemory == redis_client = None
\* the raw results of the reply
RawOf(reply) == Get(reply.data, "results", <<>>)
\* the upstream endpoints a request can try, and those it did try
Pool == <<SEARXNG_URL>>
Attempts(o) == Len(SelectSeq(o, LAMBDA x : x = GetOp))

\* ---- C1 -----------------------------------------------------------------
\* C1: with the in-process cache, a /search request that finds no entry for
\* its key and whose upstream answers successfully is answered cached=false
\* and leaves the entry the next request with the same tuple hits, and a
\* /search request that finds an entry is answered cached=true.
C1_MissThenHit ==
    (InMemory /\ IsRequest(last.req) /\ last.req.endpoint = "search") =>
        /\ UpstreamOk =>
            /\ last.resp.status = 200
            /\ last.resp.body.cached = FALSE
            /\ cache_hit(last.cache_key)
        /\ (Answered /\ last.ops = <<"cache_get">>) =>
            /\ last.resp.status = 200
            /\ last.resp.body.cached = TRUE

\* ---- C2 -----------------------------------------------------------------
\* C2: no request to /search, /news, /images or /videos is answered with an
\* error that a cache read or a cache write caused.
C2_CacheNeverFails ==
    Answered => last.resp.exc # "ConnectionError"

\* ---- C3 -----------------------------------------------------------------
\* C3: when an attempted endpoint of the pool succeeds, the request is
\* answered 200 with the response built from the reply of the first endpoint
\* that succeeded, and the caller sees no failure.
C3_FirstSuccessReturned ==
    (InMemory /\ UpstreamOk) =>
        /\ last.resp.status = 200
        /\ last.resp.body =
               ResponseData(last.req.q, last.upstream.data,
                            CategoryOf[last.req.endpoint], last.req.limit)

\* ---- C4 -----------------------------------------------------------------
\* C4: when every attempted endpoint fails, the request is answered 503 with
\* one failure message per attempted endpoint, and the endpoints attempted
\* are as many as the pool holds (up to the attempt limit).
C4_AllFailedAggregate ==
    UpstreamFailed =>
        /\ last.resp.status = 503
        /\ Len(last.resp.detail) = Attempts(last.ops)
        /\ Attempts(last.ops) = Len(Pool)

\* ---- C5 -----------------------------------------------------------------
\* C5: a cache-miss request with limit L whose upstream answers successfully
\* with n results is answered 200 with exactly the first min(L, n) upstream
\* results, formatted, in upstream order.
C5_FirstLimitResults ==
    (InMemory /\ UpstreamOk) =>
        /\ last.resp.status = 200
        /\ Len(last.resp.body.results) =
               Min(last.req.limit, Len(RawOf(last.upstream)))
        /\ \A i \in 1..Len(last.resp.body.results) :
               last.resp.body.results[i] =
                   SearchResult(RawOf(last.upstream)[i],
                                CategoryOf[last.req.endpoint])

\* ---- C6 -----------------------------------------------------------------
Keyed(i) == "key" \in DOMAIN keyed[i]
SameButLanguage(a, b) ==
    /\ a.endpoint = b.endpoint /\ a.q = b.q
    /\ a.limit = b.limit /\ a.safesearch = b.safesearch

Built == "results" \in DOMAIN last.response_data

\* C7: in the response a handler builds on a cache miss and in every
\* response sent, from the cache or not, a result of /search, /news or
\* /videos has no thumbnail, whatever the upstream result holds, and a
\* result /images builds has the thumbnail of its upstream result.
C7_ThumbnailOnlyImages ==
    /\ Built =>
        \A i \in 1..Len(last.response_data.results) :
            last.response_data.results[i].thumbnail =
                IF last.req.endpoint = "images"
                THEN Get(RawOf(last.upstream)[i], "thumbnail", None)
                ELSE None
    /\ (Answered /\ last.resp.status = 200) =>
        \A i \in 1..Len(last.resp.body.results) :
            /\ last.req.endpoint # "images" =>
                    last.resp.body.results[i].thumbnail = None
            /\ Built => last.resp.body.results[i] = last.response_data.results[i]

\* /images has built two results: one with the upstream's thumbnail, one
\* whose upstream result has none
C7_Witness ==
    /\ Built /\ last.req.endpoint = "images"
    /\ Len(last.response_data.results) = 2
    /\ last.response_data.results[1].thumbnail = "th1"
    /\ last.response_data.results[2].thumbnail = None

\* ---- C8 -----------------------------------------------------------------
HealthAnswered == "code" \in DOMAIN health_resp

\* C8: /health answers 200, with status "healthy" exactly when the probe of
\* the upstream got a 200 and "degraded" otherwise, whatever the cache
\* store's state.
C8_HealthStatus ==
    HealthAnswered =>
        /\ health_resp.code = 200
        /\ health_resp.status = (IF health_resp.probe = "200" THEN "healthy"
                                 ELSE "degraded")

\* healthy while the Redis server is unreachable
C8_Witness ==
    /\ HealthAnswered
    /\ health_resp.status = "healthy"
    /\ health_resp.redis = "unreachable"

\* ---- C9 -----------------------------------------------------------------
OutOfRange(r) ==
    \/ r.limit < 1 \/ r.limit > MAX_RESULTS
    \/ r.safesearch < 0 \/ r.safesearch > 2

\* C9: the step that handles a request whose limit is outside
\* 1..MAX_RESULTS or whose safesearch is outside 0..2 answers 4xx, issues no
\* cache read, no upstream query and no cache write, and leaves both cache
\* stores and every handler in flight as they were.
C9_InvalidRejected ==
    [][(last' # last /\ IsRequest(last'.req) /\ OutOfRange(last'.req)) =>
            /\ last'.resp.status >= 400 /\ last'.resp.status <= 499
            /\ last'.ops = <<>>
            /\ UNCHANGED <<redis_store, _memory_cache, pc, req, cache_key>>]_vars

\* a request with limit MAX_RESULTS + 1 was rejected while an entry is cached
C9_Witness ==
    /\ IsRequest(last.req)
    /\ last.req.limit = MAX_RESULTS + 1
    /\ last.resp.status = 422
    /\ DOMAIN _memory_cache # {}

\* ---- C10 ----------------------------------------------------------------
\* C10: an attempt that ends in a status other than 200, a timeout, a
\* transport error or any other failure to obtain a usable reply is answered
\* 503: never 200 with its payload, never 500.
C10_FailureIs503 ==
    (UpstreamFailed /\ Answered) => last.resp.status = 503

\* ---- C11 ----------------------------------------------------------------
\* C11: a request queries each upstream endpoint at most once (a failed one
\* is not retried), and once search_searxng has returned or raised, the
\* request issues no further upstream query.
C11_AtMostOneQuery ==
    IsRequest(last.req) =>
        /\ Attempts(last.ops) <= Len(Pool)
        /\ Replied => \A i \in 3..Len(last.ops) : last.ops[i] # GetOp

\* the one GET ended in an error status, and the request was answered 503
\* with no second GET
C11_Witness ==
    /\ Replied /\ last.upstream.kind = "status"
    /\ last.resp.status = 503
    /\ Attempts(last.ops) = 1

\* ---- C12 ----------------------------------------------------------------
\* the store cache_get reads holds an entry for the key
Held(key) ==
    IF redis_client # None THEN key \in DOMAIN redis_store
    ELSE key \in DOMAIN _memory_cache

\* the step is the arrival of a request whose parameters were accepted
Arrival == nreq' # nreq /\ last'.cache_key # None

\* C12: a request that arrives while the cache holds an entry for its key
\* is answered in the same step, with no upstream query and no cache write,
\* and leaves the cache and the requests in flight as they were; a request
\* that queries the upstream arrived while the cache held no entry for its
\* key.
C12_HitReturnsImmediately ==
    [][Arrival =>
        /\ Held(last'.cache_key) =>
            /\ last'.ops = <<"cache_get">>
            /\ last'.resp.status # 0
            /\ UNCHANGED <<redis_store, _memory_cache, pc, req, cache_key>>
        /\ Attempts(last'.ops) > 0 => ~Held(last'.cache_key)]_vars

\* a request was answered from the cache, with cached = true
C12_Witness ==
    /\ IsRequest(last.req) /\ last.ops = <<"cache_get">>
    /\ last.resp.status = 200
    /\ last.resp.body.cached = TRUE

\* ---- C13 ----------------------------------------------------------------
\* another request with the same cache key is in flight: it arrived, and
\* missed, before the latest step's request was resumed
Concurrent ==
    \E p \in Procs : pc[p] = "await" /\ cache_key[p] = last.cache_key

\* the reply's document has a total SearchResponse accepts
WellFormed == Get(last.upstream.data, "number_of_results", "0") # None

\* C13: of two requests that computed the same key and both missed, the one
\* whose upstream answers first (successfully) is answered 200 with
\* cached=false and the response built from its own reply, and the cache
\* then holds that response under the key.
C13_ConcurrentMissesSucceed ==
    (InMemory /\ UpstreamOk /\ WellFormed /\ Concurrent) =>
        /\ last.resp.status = 200
        /\ last.resp.body = last.response_data
        /\ last.resp.body.cached = FALSE
        /\ Has(_memory_cache, last.cache_key)
        /\ json_loads(_memory_cache[last.cache_key]) = last.response_data

\* ---- C14 ----------------------------------------------------------------
\* the step is a step of a search handler: an arrival or a resumption
HandlerStep == nreq' # nreq \/ pc' # pc

\* the entries of store that the step replaced
Rewritten(store, store2) ==
    {k \in DOMAIN store \cap DOMAIN store2 : store2[k] # store[k]}

\* C14: no step of a handler removes an entry from either store, and one
\* that replaces an entry belongs to a request that read the key as absent
\* and queried the upstream; the in-process dict loses no entry in any step;
\* and with the in-process dict a request that arrives when its key has an
\* entry is served from the cache.
C14_EntriesStay ==
    [][/\ HandlerStep =>
            /\ DOMAIN redis_store \subseteq DOMAIN redis_store'
            /\ \A k \in Rewritten(redis_store, redis_store')
                        \cup Rewritten(_memory_cache, _memory_cache') :
                    last'.cache_key = k /\ Attempts(last'.ops) > 0
       /\ DOMAIN _memory_cache \subseteq DOMAIN _memory_cache'
       /\ (Arrival /\ InMemory /\ last'.cache_key \in DOMAIN _memory_cache) =>
            /\ last'.ops = <<"cache_get">>
            /\ last'.resp.status # 0]_vars

\* the in-process dict holds the entries of two requests, and a third
\* request was served from it
C14_Witness ==
    /\ InMemory /\ Cardinality(DOMAIN _memory_cache) = 2
    /\ nreq = 3
    /\ last.ops = <<"cache_get">>
    /\ last.resp.status = 200
    /\ last.resp.body.cached = TRUE

\* ---- C15 ----------------------------------------------------------------
\* the entries of store2 that the step created or replaced
Written(store, store2) ==
    {k \in DOMAIN store2 : k \notin DOMAIN store \/ store2[k] # store[k]}

\* the entry the request of the latest step read
Entry(key) == IF redis_client # None THEN redis_store[key] ELSE _memory_cache[key]

\* C15: the entry a cache-miss request writes is the stored form of the
\* response_data it answers with (cached = false), and the response of a
\* cache hit has the query, results, total, time and engines of the entry it
\* read, and cached = true: a hit repeats the response of the miss that wrote
\* the entry, but for the flag.
C15_HitRepeatsMiss ==
    [][/\ HandlerStep =>
            \A k \in Written(redis_store, redis_store')
                        \cup Written(_memory_cache, _memory_cache') :
                /\ last'.cache_key = k
                /\ (IF redis_client # None THEN redis_store' ELSE _memory_cache')[k]
                        = json_dumps(last'.response_data)
                /\ last'.response_data.cached = FALSE
                /\ last'.resp.status = 200 => last'.resp.body = last'.response_data
       /\ (Arrival /\ Held(last'.cache_key) /\ last'.resp.status = 200) =>
            /\ last'.resp.body.query = Member(Entry(last'.cache_key), "query")
            /\ last'.resp.body.results = Member(Entry(last'.cache_key), "results")
            /\ last'.resp.body.total = Member(Entry(last'.cache_key), "total")
            /\ last'.resp.body.time = Member(Entry(last'.cache_key), "time")
            /\ last'.resp.body.engines = Member(Entry(last'.cache_key), "engines")
            /\ last'.resp.body.cached = TRUE]_vars

\* a request was served the entry of a reply that named its engines, after
\* two requests that missed
C15_Witness ==
    /\ nreq = 3
    /\ last.ops = <<"cache_get">>
    /\ last.resp.status = 200
    /\ last.resp.body.cached = TRUE
    /\ last.resp.body.engines = <<"e1">>
    /\ last.resp.body.total = "7"

TuplesOf(key) ==
    {<<e, i>> \in KeyEndpoints \X DOMAIN Params :
        /\ Valid(Params[i].limit, Params[i].safesearch)
        /\ handler_key(e, Params[i].q, Params[i].limit, Params[i].safesearch,
                       Params[i].language) = key}

EntryMatchesKey(store, key) ==
    /\ TuplesOf(key) # {}
    /\ Member(store[key], "cached") = FALSE
    /\ \A t \in TuplesOf(key) :
            /\ Member(store[key], "query") = Params[t[2]].q
            /\ Len(Member(store[key], "results")) <= Params[t[2]].limit

\* C17: every entry of either store lies under the key of some request, is
\* stored with cached = false, has the query text of the requests its key
\* is derived from and at most their limit of results; and the response a
\* handler builds, and every response sent, from the cache or not, has at
\* most the request's limit of results.
C17_EntriesMatchKeys ==
    /\ \A k \in DOMAIN redis_store : EntryMatchesKey(redis_store, k)
    /\ \A k \in DOMAIN _memory_cache : EntryMatchesKey(_memory_cache, k)
    /\ Built => Len(last.response_data.results) <= last.req.limit
    /\ (Answered /\ last.resp.status = 200) =>
            Len(last.resp.body.results) <= last.req.limit

\* an entry is cached, and a request with limit 1 has built its response
\* from the first of two upstream results
C17_Witness ==
    /\ DOMAIN _memory_cache # {}
    /\ Built /\ last.req.limit = 1
    /\ Len(RawOf(last.upstream)) = 2
    /\ Len(last.response_data.results) = 1

====
